---- MODULE Spec2Model ----
(***************************************************************************)
(* Model of the two command-line programs of the repository:              *)
(*   chapter-03/fib-number/src/main.rs   (the Fibonacci reporter)          *)
(*   guess/src/main.rs                   (the guessing game)               *)
(* A run executes one of the two binaries; `program` records which one.    *)
(*                                                                         *)
(* Text is a sequence of one-character strings.  A u32 is a record of two  *)
(* 16-bit limbs [hi, lo], so that the 32-bit width of the source is kept   *)
(* without leaving the range of the model checker's integers.              *)
(*                                                                         *)
(* The I/O failures modelled are the ones the source handles itself, the   *)
(* `.expect(..)` on flush and on read_line.  Standard input is a stream    *)
(* whose end-of-input persists (a file or a pipe).  `stdout` keeps what    *)
(* was written since the last line was read, which is all the properties   *)
(* speak about and keeps the state of the unbounded game loop finite.      *)
(***************************************************************************)
EXTENDS Integers, Sequences, FiniteSets, TLC

VARIABLES
    program,          \* which binary runs: "fib-number" or "guess"
    overflow_checks,  \* rustc -C overflow-checks of the build (on in dev, off in release)
    pc,               \* position of main
    eof,              \* standard input has reached end-of-input
    stdout,           \* what was written since the last read_line returned
    exit_code,        \* <<status>> once the process has ended, <<>> while it runs
    line,             \* the String filled by read_line (`wanted` / `guess`)
    wanted,           \* fib-number: the parsed u32 `wanted`
    fib,              \* fib-number: `fib`
    fib_prev,         \* fib-number: `fib_prev`
    iter,             \* fib-number: next value of the range 2..wanted
    secret_number,    \* guess: `secret_number`
    answered          \* guess: history of <<guess, response>> pairs given so far

vars == <<program, overflow_checks, pc, eof, stdout, exit_code, line, wanted,
          fib, fib_prev, iter, secret_number, answered>>

----------------------------------------------------------------------------
(* Bounds of the model *)

\* largest index for which the Fibonacci loop is run
MaxIndex == 49

----------------------------------------------------------------------------
(* u32 as two 16-bit limbs *)

LimbBase == 65536

U32 == [hi : 0..(LimbBase - 1), lo : 0..(LimbBase - 1)]

\* the u32 of a small natural number (n < 2^31)
ToU32(n) == [hi |-> n \div LimbBase, lo |-> n % LimbBase]

Lt32(a, b) == a.hi < b.hi \/ (a.hi = b.hi /\ a.lo < b.lo)

\* variant of Add32: the sum saturates at u32::MAX (saturating_add)
Add32_Saturating(a, b) ==
    LET l == a.lo + b.lo
        h == a.hi + b.hi + (l \div LimbBase)
    IN  IF h >= LimbBase
        THEN [sum |-> [hi |-> LimbBase - 1, lo |-> LimbBase - 1], overflow |-> FALSE]
        ELSE [sum |-> [hi |-> h, lo |-> l % LimbBase], overflow |-> FALSE]

\* a + b on u32: the wrapped sum and whether the true sum left the 32 bits
Add32(a, b) ==
    LET l == a.lo + b.lo
        h == a.hi + b.hi + (l \div LimbBase)
    IN  [sum |-> [hi |-> h % LimbBase, lo |-> l % LimbBase],
         overflow |-> h >= LimbBase]

\* Ord::cmp on u32
Cmp32(a, b) == IF Lt32(a, b) THEN "Less" ELSE IF Lt32(b, a) THEN "Greater" ELSE "Equal"

----------------------------------------------------------------------------
(* str::trim and str::parse::<u32> *)

Whitespace == {" ", "\t", "\n", "\r"}

Digits == <<"0", "1", "2", "3", "4", "5", "6", "7", "8", "9">>

IsDigit(c) == \E d \in 1..10 : Digits[d] = c

DigitVal(c) == (CHOOSE d \in 1..10 : Digits[d] = c) - 1

RECURSIVE TrimStart(_)
TrimStart(s) ==
    IF s = <<>> THEN s
    ELSE IF Head(s) \in Whitespace THEN TrimStart(Tail(s)) ELSE s

RECURSIVE TrimEnd(_)
TrimEnd(s) ==
    IF s = <<>> THEN s
    ELSE IF s[Len(s)] \in Whitespace THEN TrimEnd(SubSeq(s, 1, Len(s) - 1)) ELSE s

Trim(s) == TrimEnd(TrimStart(s))

\* the digit loop of from_str_radix: acc * 10 + digit with overflow detection
RECURSIVE ParseDigits(_, _)
ParseDigits(s, acc) ==
    IF s = <<>> THEN [ok |-> TRUE, num |-> acc]
    ELSE IF ~IsDigit(Head(s)) THEN [ok |-> FALSE, num |-> ToU32(0)]
    ELSE LET l == acc.lo * 10 + DigitVal(Head(s))
             h == acc.hi * 10 + (l \div LimbBase)
         IN  IF h >= LimbBase THEN [ok |-> FALSE, num |-> ToU32(0)]
             ELSE ParseDigits(Tail(s), [hi |-> h, lo |-> l % LimbBase])

\* str::parse::<u32>: empty, a lone sign, a '-' or any non-digit is an error;
\* one leading '+' is accepted
Parse(s) ==
    IF s = <<>> THEN [ok |-> FALSE, num |-> ToU32(0)]
    ELSE IF Len(s) = 1 /\ Head(s) \in {"+", "-"} THEN [ok |-> FALSE, num |-> ToU32(0)]
    ELSE IF Head(s) = "+" THEN ParseDigits(Tail(s), ToU32(0))
    ELSE ParseDigits(s, ToU32(0))

\* the decimal text of a small natural number
RECURSIVE ToDecimal(_)
ToDecimal(n) ==
    IF n < 10 THEN <<Digits[n + 1]>>
    ELSE Append(ToDecimal(n \div 10), Digits[(n % 10) + 1])

----------------------------------------------------------------------------
(* Standard input and process exit *)

\* exit status of a Rust process that panicked
PanicCode == 101

Terminal == {"returned", "exited", "panicked"}

\* lines typed at the Fibonacci prompt besides the plain decimal indices
FibExtraLines ==
    {<<"a", "b", "c", "\n">>,
     <<" ", "7", " ", "\n">>,
     <<"+", "7", "\n">>,
     <<"-", "1", "\n">>,
     <<"\n">>,
     <<"1", "a", "\n">>,
     <<"7", " ", "7", "\n">>,
     <<"\t", "4", "8", "\n">>,
     <<"1", "2">>,
     <<"4", "2", "9", "4", "9", "6", "7", "2", "9", "5", "\n">>,
     <<"4", "2", "9", "4", "9", "6", "7", "2", "9", "6", "\n">>}

FibLines == FibExtraLines \cup {Append(ToDecimal(n), "\n") : n \in 0..MaxIndex}

\* lines typed at the guessing game's prompt
GuessLines ==
    {<<"q", "\n">>,
     <<"q", "u", "i", "t", "\n">>,
     <<" ", "q", " ", "\n">>,
     <<"q", "u", "i", "t">>,
     <<"Q", "\n">>,
     <<"q", "u", "i", "t", " ", "n", "o", "w", "\n">>,
     <<"b", "a", "n", "a", "n", "a", "\n">>,
     <<"\n">>,
     <<"-", "5", "\n">>,
     <<"4", "2", "9", "4", "9", "6", "7", "2", "9", "6", "\n">>,
     <<"0", "\n">>,
     <<" ", "5", "0", " ", "\n">>,
     <<"+", "5", "0", "\n">>,
     <<"1", "0", "0", "\n">>,
     <<"1", "0", "1", "\n">>,
     <<"4", "2", "9", "4", "9", "6", "7", "2", "9", "5", "\n">>,
     <<"5", "0">>}

Lines == IF program = "fib-number" THEN FibLines ELSE GuessLines

\* what one call of read_line can produce: a line (a last line without its
\* terminator is followed by end-of-input), nothing at end-of-input, or an error
ReadOutcomes ==
    (IF eof THEN {} ELSE {[ok |-> TRUE, text |-> l, eof |-> l[Len(l)] # "\n"] : l \in Lines})
    \cup {[ok |-> TRUE, text |-> <<>>, eof |-> TRUE]}
    \cup {[ok |-> FALSE, text |-> <<>>, eof |-> eof]}

\* `.expect(..)` on an Err: the thread panics and the process ends with 101
Panic ==
    /\ pc' = "panicked"
    /\ exit_code' = <<PanicCode>>

\* print!(prompt); io::stdout().flush().expect(..)
PromptAndFlush(prompt, next) ==
    \E flushed \in BOOLEAN :
        IF flushed
        THEN /\ stdout' = Append(stdout, [text |-> prompt])
             /\ pc' = next
             /\ exit_code' = exit_code
        ELSE /\ Panic
             /\ stdout' = stdout

\* io::stdin().read_line(&mut s).expect(..)
ReadLineInto(next) ==
    \E r \in ReadOutcomes :
        /\ eof' = r.eof
        /\ IF r.ok
           THEN /\ line' = r.text
                /\ stdout' = <<>>
                /\ pc' = next
                /\ exit_code' = exit_code
           ELSE /\ Panic
                /\ UNCHANGED <<line, stdout>>

----------------------------------------------------------------------------
(* chapter-03/fib-number *)

FibVars == <<wanted, fib, fib_prev, iter>>
GuessVars == <<secret_number, answered>>
Build == <<program, overflow_checks>>

FibPromptText == "What number in the Fibonacci sequence do you want to see? "
FibErrorText == "You entered '{wanted}'. Try again with a number."
FibResultText == "Number {wanted} in the Fibonacci sequence is {fib}."

\* the indices the model runs the loop for
InBound(w) == w.hi = 0 /\ w.lo <= MaxIndex

\* main, lines 5-6
FibPrompt ==
    /\ program = "fib-number"
    /\ pc = "prompt"
    /\ PromptAndFlush(FibPromptText, "read_line")
    /\ UNCHANGED <<Build, eof, line, FibVars, GuessVars>>

\* main, lines 7-10
FibReadLine ==
    /\ program = "fib-number"
    /\ pc = "read_line"
    /\ ReadLineInto("parse")
    /\ UNCHANGED <<Build, FibVars, GuessVars>>

\* variant of FibParse: the error sentence echoes the line as read, untrimmed
FibParse_EchoesLine ==
    /\ program = "fib-number"
    /\ pc = "parse"
    /\ LET trimmed == Trim(line)
           parsed == Parse(trimmed)
       IN  IF parsed.ok
           THEN /\ wanted' = parsed.num
                /\ pc' = "show_fib_for"
                /\ UNCHANGED <<stdout, exit_code>>
           ELSE /\ stdout' = Append(stdout, [text |-> FibErrorText, wanted |-> line])
                /\ pc' = "exited"
                /\ exit_code' = <<1>>
                /\ UNCHANGED wanted
    /\ UNCHANGED <<Build, eof, line, fib, fib_prev, iter, GuessVars>>

\* main, lines 11-19: trim, parse, and either report the error and exit(1)
\* or call show_fib_for
FibParse ==
    /\ program = "fib-number"
    /\ pc = "parse"
    /\ LET trimmed == Trim(line)
           parsed == Parse(trimmed)
       IN  IF parsed.ok
           THEN /\ wanted' = parsed.num
                /\ pc' = "show_fib_for"
                /\ UNCHANGED <<stdout, exit_code>>
           ELSE /\ stdout' = Append(stdout, [text |-> FibErrorText, wanted |-> trimmed])
                /\ pc' = "exited"
                /\ exit_code' = <<1>>
                /\ UNCHANGED wanted
    /\ UNCHANGED <<Build, eof, line, fib, fib_prev, iter, GuessVars>>

\* variant of ShowFibFor: the early return only below 1
ShowFibFor_BelowOne ==
    /\ program = "fib-number"
    /\ pc = "show_fib_for"
    /\ InBound(wanted)
    /\ IF Lt32(wanted, ToU32(1))
       THEN /\ stdout' = Append(stdout, [text |-> FibResultText, wanted |-> wanted, fib |-> wanted])
            /\ pc' = "returned"
            /\ exit_code' = <<0>>
            /\ UNCHANGED <<fib, fib_prev, iter>>
       ELSE /\ fib' = ToU32(1)
            /\ fib_prev' = ToU32(1)
            /\ iter' = 2
            /\ pc' = "for"
            /\ UNCHANGED <<stdout, exit_code>>
    /\ UNCHANGED <<Build, eof, line, wanted, GuessVars>>

\* show_fib_for, lines 22-28: the early return below 2, else the start of the loop
ShowFibFor ==
    /\ program = "fib-number"
    /\ pc = "show_fib_for"
    /\ InBound(wanted)
    /\ IF Lt32(wanted, ToU32(2))
       THEN /\ stdout' = Append(stdout, [text |-> FibResultText, wanted |-> wanted, fib |-> wanted])
            /\ pc' = "returned"
            /\ exit_code' = <<0>>
            /\ UNCHANGED <<fib, fib_prev, iter>>
       ELSE /\ fib' = ToU32(1)
            /\ fib_prev' = ToU32(1)
            /\ iter' = 2
            /\ pc' = "for"
            /\ UNCHANGED <<stdout, exit_code>>
    /\ UNCHANGED <<Build, eof, line, wanted, GuessVars>>

\* variant of ForStep: fib_prev is not advanced
ForStep_KeepsPrev ==
    /\ program = "fib-number"
    /\ pc = "for"
    /\ iter < wanted.lo
    /\ LET next == Add32(fib_prev, fib)
       IN  IF next.overflow /\ overflow_checks
           THEN /\ Panic
                /\ UNCHANGED <<fib, fib_prev, iter>>
           ELSE /\ fib_prev' = fib_prev
                /\ fib' = next.sum
                /\ iter' = iter + 1
                /\ UNCHANGED <<pc, exit_code>>
    /\ UNCHANGED <<Build, eof, stdout, line, wanted, GuessVars>>

\* show_fib_for, lines 29-31: one pass of `for _ in 2..wanted`
ForStep ==
    /\ program = "fib-number"
    /\ pc = "for"
    /\ iter < wanted.lo
    /\ LET next == Add32(fib_prev, fib)
       IN  IF next.overflow /\ overflow_checks
           THEN /\ Panic
                /\ UNCHANGED <<fib, fib_prev, iter>>
           ELSE /\ fib_prev' = fib
                /\ fib' = next.sum
                /\ iter' = iter + 1
                /\ UNCHANGED <<pc, exit_code>>
    /\ UNCHANGED <<Build, eof, stdout, line, wanted, GuessVars>>

\* show_fib_for, lines 29 and 32-33: the range is exhausted, print and return
ShowFibPrint ==
    /\ program = "fib-number"
    /\ pc = "for"
    /\ iter >= wanted.lo
    /\ stdout' = Append(stdout, [text |-> FibResultText, wanted |-> wanted, fib |-> fib])
    /\ pc' = "returned"
    /\ exit_code' = <<0>>
    /\ UNCHANGED <<Build, eof, line, FibVars, GuessVars>>

----------------------------------------------------------------------------
(* guess *)

SecretLow == 1
SecretHigh == 100

BannerText == "Guess the number!"
GuessPromptText == "Please input your guess: "
FarewellText == "Thanks for playing!"
TooSmallText == "Too small!"
TooBigText == "Too big!"
CorrectText == "{} is correct: congratulations!"

QuitKeywords == {<<"q">>, <<"q", "u", "i", "t">>}

\* main, lines 7-8: the one draw of the secret and the banner
Draw ==
    /\ program = "guess"
    /\ pc = "start"
    /\ \E n \in SecretLow..SecretHigh : secret_number' = ToU32(n)
    /\ stdout' = Append(stdout, [text |-> BannerText])
    /\ pc' = "prompt"
    /\ UNCHANGED <<Build, eof, exit_code, line, FibVars, answered>>

\* variant of GuessPrompt: the secret is drawn inside the loop
GuessPrompt_Redraws ==
    /\ program = "guess"
    /\ pc = "prompt"
    /\ PromptAndFlush(GuessPromptText, "read_line")
    /\ line' = <<>>
    /\ \E n \in SecretLow..SecretHigh : secret_number' = ToU32(n)
    /\ UNCHANGED <<Build, eof, FibVars, answered>>

\* main, lines 11-13
GuessPrompt ==
    /\ program = "guess"
    /\ pc = "prompt"
    /\ PromptAndFlush(GuessPromptText, "read_line")
    /\ line' = <<>>
    /\ UNCHANGED <<Build, eof, FibVars, GuessVars>>

\* main, lines 14-16
GuessReadLine ==
    /\ program = "guess"
    /\ pc = "read_line"
    /\ ReadLineInto("match")
    /\ UNCHANGED <<Build, FibVars, GuessVars>>

\* variant of Quit: the farewell is printed but the loop goes on
Quit_Continues ==
    /\ program = "guess"
    /\ pc = "match"
    /\ Trim(line) \in QuitKeywords
    /\ stdout' = Append(stdout, [text |-> FarewellText])
    /\ pc' = "prompt"
    /\ UNCHANGED <<Build, eof, exit_code, line, FibVars, GuessVars>>

\* main, lines 18-22: a quit keyword
Quit ==
    /\ program = "guess"
    /\ pc = "match"
    /\ Trim(line) \in QuitKeywords
    /\ stdout' = Append(stdout, [text |-> FarewellText])
    /\ pc' = "exited"
    /\ exit_code' = <<0>>
    /\ UNCHANGED <<Build, eof, line, FibVars, GuessVars>>

\* variant of Continue: the parse result is unwrapped with `.expect(..)`
Continue_Expect ==
    /\ program = "guess"
    /\ pc = "match"
    /\ Trim(line) \notin QuitKeywords
    /\ ~Parse(Trim(line)).ok
    /\ Panic
    /\ UNCHANGED <<Build, eof, stdout, line, FibVars, GuessVars>>

\* variant of Continue: the empty line of end-of-input leaves the loop
Continue_BreaksAtEof ==
    /\ program = "guess"
    /\ pc = "match"
    /\ Trim(line) \notin QuitKeywords
    /\ ~Parse(Trim(line)).ok
    /\ IF line = <<>>
       THEN pc' = "returned" /\ exit_code' = <<0>>
       ELSE pc' = "prompt" /\ exit_code' = exit_code
    /\ UNCHANGED <<Build, eof, stdout, line, FibVars, GuessVars>>

\* main, lines 23-29: not a keyword and not a number, `continue`
Continue ==
    /\ program = "guess"
    /\ pc = "match"
    /\ Trim(line) \notin QuitKeywords
    /\ ~Parse(Trim(line)).ok
    /\ pc' = "prompt"
    /\ UNCHANGED <<Build, eof, stdout, exit_code, line, FibVars, GuessVars>>

\* variant of Compare: the arms of Less and Greater are exchanged
Compare_Swapped ==
    /\ program = "guess"
    /\ pc = "match"
    /\ Trim(line) \notin QuitKeywords
    /\ Parse(Trim(line)).ok
    /\ LET guess == Parse(Trim(line)).num
           ordering == Cmp32(guess, secret_number)
           said == CASE ordering = "Less" -> [text |-> TooBigText]
                     [] ordering = "Greater" -> [text |-> TooSmallText]
                     [] ordering = "Equal" -> [text |-> CorrectText, guess |-> guess]
       IN  /\ stdout' = Append(stdout, said)
           /\ answered' = answered \cup {<<guess, said.text>>}
           /\ IF ordering = "Equal"
              THEN pc' = "returned" /\ exit_code' = <<0>>
              ELSE pc' = "prompt" /\ exit_code' = exit_code
    /\ UNCHANGED <<Build, eof, line, FibVars, secret_number>>

\* variant of Compare: a correct guess ends the process with status 1
Compare_ExitsOne ==
    /\ program = "guess"
    /\ pc = "match"
    /\ Trim(line) \notin QuitKeywords
    /\ Parse(Trim(line)).ok
    /\ LET guess == Parse(Trim(line)).num
           ordering == Cmp32(guess, secret_number)
           said == CASE ordering = "Less" -> [text |-> TooSmallText]
                     [] ordering = "Greater" -> [text |-> TooBigText]
                     [] ordering = "Equal" -> [text |-> CorrectText, guess |-> guess]
       IN  /\ stdout' = Append(stdout, said)
           /\ answered' = answered \cup {<<guess, said.text>>}
           /\ IF ordering = "Equal"
              THEN pc' = "returned" /\ exit_code' = <<1>>
              ELSE pc' = "prompt" /\ exit_code' = exit_code
    /\ UNCHANGED <<Build, eof, line, FibVars, secret_number>>

\* main, lines 23-38: a number, compared with the secret
Compare ==
    /\ program = "guess"
    /\ pc = "match"
    /\ Trim(line) \notin QuitKeywords
    /\ Parse(Trim(line)).ok
    /\ LET guess == Parse(Trim(line)).num
           ordering == Cmp32(guess, secret_number)
           said == CASE ordering = "Less" -> [text |-> TooSmallText]
                     [] ordering = "Greater" -> [text |-> TooBigText]
                     [] ordering = "Equal" -> [text |-> CorrectText, guess |-> guess]
       IN  /\ stdout' = Append(stdout, said)
           /\ answered' = answered \cup {<<guess, said.text>>}
           /\ IF ordering = "Equal"
              THEN pc' = "returned" /\ exit_code' = <<0>>
              ELSE pc' = "prompt" /\ exit_code' = exit_code
    /\ UNCHANGED <<Build, eof, line, FibVars, secret_number>>

----------------------------------------------------------------------------
(* The two programs *)

Init ==
    /\ program \in {"fib-number", "guess"}
    /\ overflow_checks \in BOOLEAN
    /\ pc = IF program = "guess" THEN "start" ELSE "prompt"
    /\ eof = FALSE
    /\ stdout = <<>>
    /\ exit_code = <<>>
    /\ line = <<>>
    /\ wanted = ToU32(0)
    /\ fib = ToU32(0)
    /\ fib_prev = ToU32(0)
    /\ iter = 0
    /\ secret_number = ToU32(0)
    /\ answered = {}

Next ==
    \/ FibPrompt
    \/ FibReadLine
    \/ FibParse
    \/ ShowFibFor
    \/ ForStep
    \/ ShowFibPrint
    \/ Draw
    \/ GuessPrompt
    \/ GuessReadLine
    \/ Quit
    \/ Continue
    \/ Compare

Spec == Init /\ [][Next]_vars

TypeOK ==
    /\ program \in {"fib-number", "guess"}
    /\ overflow_checks \in BOOLEAN
    /\ eof \in BOOLEAN
    /\ exit_code \in {<<>>, <<0>>, <<1>>, <<PanicCode>>}
    /\ wanted \in U32 /\ fib \in U32 /\ fib_prev \in U32 /\ secret_number \in U32
    /\ iter \in 0..(MaxIndex + 1)
    /\ (pc \in Terminal) = (exit_code # <<>>)

----------------------------------------------------------------------------
(* The canonical Fibonacci sequence, F(0) = 0, F(1) = 1, F(n) = F(n-1) + F(n-2), *)
(* in exact arithmetic: a natural number is four 16-bit limbs, lowest first.      *)

Exact(n) == <<n % LimbBase, n \div LimbBase, 0, 0>>

ExactAdd(a, b) ==
    LET s1 == a[1] + b[1]
        s2 == a[2] + b[2] + (s1 \div LimbBase)
        s3 == a[3] + b[3] + (s2 \div LimbBase)
        s4 == a[4] + b[4] + (s3 \div LimbBase)
    IN  <<s1 % LimbBase, s2 % LimbBase, s3 % LimbBase, s4 % LimbBase>>

\* <<F(n), F(n+1)>>
RECURSIVE CanonicalPair(_)
CanonicalPair(n) ==
    IF n = 0 THEN <<Exact(0), Exact(1)>>
    ELSE LET p == CanonicalPair(n - 1) IN <<p[2], ExactAdd(p[1], p[2])>>

F(n) == CanonicalPair(n)[1]

\* the exact value fits a u32
Fits32(x) == x[3] = 0 /\ x[4] = 0

\* the exact value modulo 2^32, as a u32
Mod32(x) == [hi |-> x[2], lo |-> x[1]]

----------------------------------------------------------------------------
(* Vocabulary of the properties *)

RunsFib == program = "fib-number"
RunsGuess == program = "guess"

LastPrinted == stdout[Len(stdout)]

ResultPrinted == stdout # <<>> /\ LastPrinted.text = FibResultText

\* t is l without its leading and trailing whitespace, stated without str::trim
IsTrimOf(t, l) ==
    /\ t = <<>> \/ (t[1] \notin Whitespace /\ t[Len(t)] \notin Whitespace)
    /\ \E a \in 0..Len(l) :
          /\ a + Len(t) <= Len(l)
          /\ \A k \in 1..Len(l) :
                IF k > a /\ k <= a + Len(t) THEN l[k] = t[k - a] ELSE l[k] \in Whitespace

----------------------------------------------------------------------------
(* Properties of the Fibonacci reporter *)

\* C1 as stated: for every index n >= 2 the printed value is F(n).
C1_EveryIndex ==
    (RunsFib /\ ResultPrinted /\ ~Lt32(wanted, ToU32(2)))
        => (Fits32(F(wanted.lo)) /\ LastPrinted.fib = Mod32(F(wanted.lo)))

\* C1, amended: for every index n >= 2 whose F(n) fits in 32 bits (n <= 47) the
\* printed value is F(n) (n=2 -> 1, n=5 -> 5, n=10 -> 55); the pair starts at
\* (1, 1) = (F(1), F(2)), and after the step has been applied for the indices
\* 2 .. k-1 it is (F(k-1), F(k)); the result is printed when k = n.
C1_FibValue ==
    /\ (RunsFib /\ pc = "for" /\ Fits32(F(iter)))
          => /\ 2 <= iter /\ iter <= wanted.lo
             /\ fib = Mod32(F(iter))
             /\ fib_prev = Mod32(F(iter - 1))
    /\ (RunsFib /\ ResultPrinted /\ ~Lt32(wanted, ToU32(2)) /\ Fits32(F(wanted.lo)))
          => /\ iter = wanted.lo
             /\ LastPrinted = [text |-> FibResultText, wanted |-> wanted,
                               fib |-> Mod32(F(wanted.lo))]
             /\ (wanted = ToU32(2) => LastPrinted.fib = ToU32(1))
             /\ (wanted = ToU32(5) => LastPrinted.fib = ToU32(5))
             /\ (wanted = ToU32(10) => LastPrinted.fib = ToU32(55))

\* a result has been printed for the largest index whose value fits
C1_Witness ==
    RunsFib /\ ResultPrinted /\ wanted = ToU32(47) /\ fib = Mod32(F(47))

\* C8: for n in {0, 1} show_fib_for prints n itself, does not enter the loop
\* over the pair, and the program returns with exit status 0.
C8_BelowTwo ==
    [][(RunsFib /\ pc = "show_fib_for" /\ wanted \in {ToU32(0), ToU32(1)})
          => /\ pc' = "returned"
             /\ exit_code' = <<0>>
             /\ stdout' = <<[text |-> FibResultText, wanted |-> wanted, fib |-> wanted]>>
             /\ UNCHANGED <<fib, fib_prev, iter>>
             /\ iter = 0]_vars

C8_Witness ==
    RunsFib /\ pc = "returned" /\ wanted = ToU32(1) /\ ResultPrinted /\ LastPrinted.fib = ToU32(1)

\* C5: when the trimmed line does not parse as a u32 the program prints the
\* error sentence with the trimmed input, exits with status 1, prints no
\* result line, and takes no further step (no second prompt or read).
C5_ParseFailure ==
    [][RunsFib =>
        /\ pc \notin Terminal
        /\ (pc = "parse" /\ ~Parse(Trim(line)).ok)
              => /\ pc' = "exited"
                 /\ exit_code' = <<1>>
                 /\ Len(stdout') = 1
                 /\ stdout'[1].text = FibErrorText
                 /\ IsTrimOf(stdout'[1].wanted, line)
        /\ (pc = "parse" /\ line \in {<<"a", "b", "c", "\n">>, <<"-", "1", "\n">>, <<>>,
                 <<"4", "2", "9", "4", "9", "6", "7", "2", "9", "6", "\n">>})
              => pc' = "exited"
        /\ pc' = "exited" => (pc = "parse" /\ ~Parse(Trim(line)).ok)]_vars

C5_Witness ==
    /\ RunsFib /\ pc = "exited" /\ exit_code = <<1>>
    /\ stdout = <<[text |-> FibErrorText, wanted |-> <<"a", "b", "c">>]>>

\* C9 as stated: for an index whose F(n) exceeds 2^32 - 1 the run ends with the
\* result sentence carrying F(n) mod 2^32 and exit status 0.
C9_AlwaysWraps ==
    (RunsFib /\ pc \in Terminal /\ InBound(wanted) /\ ~Fits32(F(wanted.lo)))
        => /\ exit_code = <<0>>
           /\ ResultPrinted
           /\ LastPrinted.fib = Mod32(F(wanted.lo))

\* C9, amended: the first index whose F(n) exceeds 2^32 - 1 is 48.  For such an
\* index, a build without overflow checks (release) wraps silently: the loop
\* completes, the result sentence carries F(n) mod 2^32 and the exit status is
\* 0.  A build with overflow checks (dev) panics at the addition that would
\* produce F(48): nothing is printed and the process ends with status 101.
C9_Overflow ==
    /\ (RunsFib /\ pc \in {"for", "returned", "panicked"} /\ InBound(wanted))
          => (Fits32(F(wanted.lo)) <=> wanted.lo < 48)
    /\ (RunsFib /\ pc = "for" /\ ~overflow_checks)
          => (fib = Mod32(F(iter)) /\ fib_prev = Mod32(F(iter - 1)))
    /\ (RunsFib /\ pc \in Terminal /\ InBound(wanted) /\ ~Fits32(F(wanted.lo)))
          => IF overflow_checks
             THEN /\ pc = "panicked"
                  /\ exit_code = <<PanicCode>>
                  /\ stdout = <<>>
                  /\ iter = 47
                  /\ fib = Mod32(F(47))
             ELSE /\ pc = "returned"
                  /\ exit_code = <<0>>
                  /\ stdout = <<[text |-> FibResultText, wanted |-> wanted,
                                 fib |-> Mod32(F(wanted.lo))]>>

C9_Witness ==
    /\ RunsFib /\ ~overflow_checks /\ pc = "returned" /\ wanted = ToU32(48)
    /\ ResultPrinted /\ LastPrinted.fib = [hi |-> 7821, lo |-> 2624]

----------------------------------------------------------------------------
(* Properties of the guessing game *)

\* the line in `line` is a quit keyword / a number, seen from the evaluation point
QuitLine == IsTrimOf(<<"q">>, line) \/ IsTrimOf(<<"q", "u", "i", "t">>, line)
NumberLine == ~QuitLine /\ Parse(Trim(line)).ok
Guessed == Parse(Trim(line)).num

\* the secret is one of 1..100, so the order of a guess against it is the
\* order of the numbers
Below(g, s) == g.hi = 0 /\ g.lo < s.lo
Above(g, s) == g.hi > 0 \/ g.lo > s.lo

\* C2: a line that parses to a guess g gets exactly one message, chosen by the
\* order of g and the secret; the game goes back to the prompt after
\* "Too small!" and "Too big!", and ends (status 0, no further step) only
\* after the congratulation.
C2_Comparison ==
    [][RunsGuess =>
        /\ pc \notin Terminal
        /\ (pc = "match" /\ NumberLine) =>
              /\ stdout = <<>>
              /\ Below(Guessed, secret_number)
                    => /\ stdout' = <<[text |-> TooSmallText]>>
                       /\ pc' = "prompt"
                       /\ exit_code' = <<>>
              /\ Above(Guessed, secret_number)
                    => /\ stdout' = <<[text |-> TooBigText]>>
                       /\ pc' = "prompt"
                       /\ exit_code' = <<>>
              /\ Guessed = secret_number
                    => /\ stdout' = <<[text |-> CorrectText, guess |-> Guessed]>>
                       /\ pc' = "returned"
                       /\ exit_code' = <<0>>
        /\ pc' = "returned" => (pc = "match" /\ NumberLine /\ Guessed = secret_number)]_vars

\* the game was won after both a too small and a too big guess
C2_Witness ==
    /\ RunsGuess /\ pc = "returned" /\ exit_code = <<0>>
    /\ stdout = <<[text |-> CorrectText, guess |-> secret_number]>>
    /\ \E a, b \in answered : a[2] = TooSmallText /\ b[2] = TooBigText

\* C3: at any prompt, whatever was guessed before, a line that trims to "q" or
\* "quit" ends the process at once with "Thanks for playing!" and status 0:
\* no comparison message for that line, no further prompt or read.
C3_Quit ==
    [][RunsGuess =>
        /\ pc \notin Terminal
        /\ (pc = "match" /\ QuitLine)
              => /\ pc' = "exited"
                 /\ exit_code' = <<0>>
                 /\ stdout' = <<[text |-> FarewellText]>>
                 /\ answered' = answered]_vars

\* the game was quit with " q " after earlier guesses
C3_Witness ==
    /\ RunsGuess /\ pc = "exited" /\ exit_code = <<0>>
    /\ line = <<" ", "q", " ", "\n">>
    /\ answered # {}
    /\ stdout = <<[text |-> FarewellText]>>

\* C4: a line that is neither a keyword nor a number produces no output,
\* leaves the secret alone and leads straight back to the prompt: the next
\* thing written is the prompt; the game neither wins, quits nor fails.
C4_InvalidLine ==
    [][RunsGuess =>
        /\ (pc = "match" /\ ~QuitLine /\ ~Parse(Trim(line)).ok)
              => /\ stdout = <<>> /\ stdout' = <<>>
                 /\ secret_number' = secret_number
                 /\ answered' = answered
                 /\ pc' = "prompt"
                 /\ exit_code' = <<>>
        /\ (pc = "match" /\ line \in {<<"b", "a", "n", "a", "n", "a", "\n">>, <<"Q", "\n">>,
                                      <<"-", "5", "\n">>, <<"\n">>, <<>>})
              => pc' = "prompt"
        /\ (pc = "prompt" /\ pc' # "panicked")
              => /\ stdout' = Append(stdout, [text |-> GuessPromptText])
                 /\ pc' = "read_line"]_vars

\* back at the prompt after "banana", nothing written
C4_Witness ==
    /\ RunsGuess /\ pc = "prompt" /\ stdout = <<>>
    /\ line = <<"b", "a", "n", "a", "n", "a", "\n">>
    /\ exit_code = <<>>

\* C6: the secret is drawn once, before the first prompt, from 1..100, and
\* keeps that value in every later state; the same guess always gets the same
\* response.
C6_SecretFixed ==
    [][RunsGuess =>
        /\ pc = "start" => (stdout = <<>> /\ answered = {})
        /\ pc' # "start"
        /\ secret_number'.hi = 0
        /\ secret_number'.lo \in SecretLow..SecretHigh
        /\ pc # "start" => secret_number' = secret_number
        /\ \A a, b \in answered' : a[1] = b[1] => a[2] = b[2]]_vars

\* a value that was answered before is about to be answered again
C6_Witness ==
    /\ RunsGuess /\ pc = "match" /\ NumberLine
    /\ \E a \in answered : a[1] = Guessed
    /\ Cardinality(answered) >= 2

\* C7 as stated: every terminated run of the game ends with exit status 0.
C7_AlwaysZero ==
    (RunsGuess /\ pc \in Terminal) => exit_code = <<0>>

\* C7, amended: the exit status is 0 on a correct guess and on quit; the only
\* other way the game ends is the abort on a failed flush or read, with the
\* panic status 101.
C7_ExitStatus ==
    [][(RunsGuess /\ pc' \in Terminal) =>
        \/ /\ pc = "match"
           /\ pc' \in {"returned", "exited"}
           /\ exit_code' = <<0>>
        \/ /\ pc \in {"prompt", "read_line"}
           /\ pc' = "panicked"
           /\ exit_code' = <<PanicCode>>
           /\ stdout' = stdout]_vars

\* the game was aborted by an I/O failure after some guesses
C7_Witness ==
    RunsGuess /\ pc = "panicked" /\ exit_code = <<PanicCode>> /\ answered # {}

\* C10 as stated: the game ends only through a line that parses to the secret
\* or trims to a quit keyword.
C10_OnlyWonOrQuit ==
    (RunsGuess /\ pc \in Terminal)
        => (QuitLine \/ (NumberLine /\ Guessed = secret_number))

\* C10, amended: the game ends only through Won, Quit or the abort on a failed
\* flush or read.  End-of-input persists; every read that succeeds after it
\* yields the empty line, which is a parse failure, so the game goes round
\* prompt, read, re-prompt and does not end unless a flush or read fails.
C10_LoopExits ==
    [][RunsGuess =>
        /\ pc' \in Terminal =>
              \/ pc = "match" /\ pc' = "exited" /\ QuitLine
              \/ pc = "match" /\ pc' = "returned" /\ NumberLine /\ Guessed = secret_number
              \/ pc \in {"prompt", "read_line"} /\ pc' = "panicked"
        /\ eof => eof'
        /\ (eof /\ pc = "read_line" /\ pc' # "panicked") => (line' = <<>> /\ pc' = "match")
        /\ (pc = "match" /\ line = <<>>) => (pc' = "prompt" /\ stdout' = <<>>)
        /\ (eof /\ pc = "prompt") => pc' \in {"read_line", "panicked"}]_vars

\* after end-of-input the empty line has been discarded and the game re-prompts
C10_Witness ==
    RunsGuess /\ eof /\ pc = "prompt" /\ line = <<>> /\ stdout = <<>> /\ exit_code = <<>>

====
